---- MODULE Spec2Model ----
(***************************************************************************)
(* Electrohold tariffs: the four base tariff sensors (ElectricityTariff-   *)
(* Sensor), which scrape the price page and add VAT, and the current price *)
(* sensor (ElectroholdCurrentPriceSensor), which picks the day or the      *)
(* night base sensor's published state by local time and season and keeps  *)
(* the last value it read.  The two current price sensors share no field   *)
(* and read different registry entries: the model holds one, whose         *)
(* currency_type is drawn when it is constructed.                          *)
(*                                                                         *)
(* Prices are integers in units of 10^-5 currency per kWh (0.12478 is      *)
(* 12478).  An optional value is a sequence: None is <<>>, a value v is    *)
(* <<v>>.                                                                  *)
(***************************************************************************)
EXTENDS Integers, Sequences, FiniteSets, TLC

VARIABLES page, base, hass, added, now, cur, hist, ev

vars == <<page, base, hass, added, now, cur, hist, ev>>

None == <<>>

Some(v) == <<v>>

(***************************************************************************)
(* Bounds of the model.                                                    *)
(***************************************************************************)
\* the most table rows the price page holds
MaxRows == 2

(***************************************************************************)
(* The price page.  A document is a sequence of table rows, a row a        *)
(* sequence of cells, a cell's text a sequence of tokens: a word, or a     *)
(* number written with a decimal comma or a decimal dot.                   *)
(***************************************************************************)
W(x) == <<"w", x>>

\* the number ip.fp (fp in units of 10^-5) written with separator sep
Num(ip, fp, sep) == <<"n", ip, fp, sep>>

IsNum(tok) == tok[1] = "n"

Dnevna == W("Dnevna")

Noshtna == W("Noshtna")

\* day row of the page: label, two component prices, final BGN, final EUR
DayRow ==
    << <<>>, <<Dnevna>>, <<Num(0, 20000, ","), W("lv")>>, <<Num(0, 4403, ","), W("lv")>>,
       <<Num(0, 24403, ","), W("lv")>>, <<Num(0, 12478, ","), W("eur")>> >>

\* night row of the page
NightRow ==
    << <<>>, <<Noshtna>>, <<Num(0, 10000, ","), W("lv")>>, <<Num(0, 4436, ","), W("lv")>>,
       <<Num(0, 14436, ","), W("lv")>>, <<Num(0, 7381, ","), W("eur")>> >>

\* a night row whose only EUR number is far below the usual night price
NightRowLow ==
    << <<>>, <<Noshtna>>, <<>>, <<>>,
       <<Num(0, 14436, "."), W("lv")>>, <<Num(0, 3000, "."), W("eur")>> >>

\* a day row whose final price cells hold no number
DayRowBlank ==
    << <<>>, <<Dnevna>>, <<Num(0, 20000, ","), W("lv")>>, <<Num(0, 4403, ","), W("lv")>>,
       <<W("n/a")>>, <<>> >>

\* a day row with five cells only (one component column), the EUR price in the last
DayRowShort ==
    << <<>>, <<Dnevna>>, <<Num(0, 20000, ","), W("lv")>>,
       <<Num(0, 24403, ","), W("lv")>>, <<Num(0, 12478, ","), W("eur")>> >>

\* a heading row
HeaderRow ==
    << <<W("Zona")>>, <<W("Tarifa")>>, <<W("Cena")>>, <<W("Mrezhi")>>,
       <<W("Kraina"), W("lv")>>, <<W("Kraina"), W("eur")>> >>

Rows == {DayRow, NightRow, NightRowLow, DayRowBlank, DayRowShort, HeaderRow}

Docs == UNION {[1..n -> Rows] : n \in 0..MaxRows}

\* the page as published, and a page without its table
FullDoc == <<DayRow, NightRow>>

NoTableDoc == <<>>

SmallDocs == {FullDoc, NoTableDoc}

(***************************************************************************)
(* ElectricityTariffSensor                                                 *)
(***************************************************************************)
SensorTypes == {"day_tariff", "night_tariff", "day_tariff_euro", "night_tariff_euro"}

\* text.replace(',', '.')
ReplaceComma(text) ==
    [i \in 1..Len(text) |->
        IF IsNum(text[i]) /\ text[i][4] = "," THEN Num(text[i][2], text[i][3], ".")
        ELSE text[i]]

\* float(match.group(1)) of the first match of \d+(?:\.\d+)? in a token
MatchValue(tok) ==
    IF tok[4] = "." THEN tok[2] * 100000 + tok[3] ELSE tok[2] * 100000

\* _extract_numeric_value
ExtractNumericValue(text) ==
    LET t == ReplaceComma(text)
        hits == {i \in 1..Len(t) : IsNum(t[i])}
    IN  IF hits # {}
        THEN Some(MatchValue(t[CHOOSE i \in hits : \A j \in hits : i <= j]))
        ELSE None

\* "Дневна" in first_cell_text
Contains(text, word) == \E i \in 1..Len(text) : text[i] = word

\* tariffs[key] = value
Put(tariffs, key, value) ==
    [k \in DOMAIN tariffs \cup {key} |-> IF k = key THEN value ELSE tariffs[k]]

\* the body of the loop over the rows in _parse_main_tariffs (cells[i] is row[i+1])
ParseRow(tariffs, cells) ==
    IF Len(cells) >= 6
    THEN LET first_cell_text == cells[2]
             bgn_text == cells[5]
             eur_text == cells[6]
         IN  IF Contains(first_cell_text, Dnevna)
             THEN Put(Put(tariffs, "day_bgn", ExtractNumericValue(bgn_text)),
                      "day_eur", ExtractNumericValue(eur_text))
             ELSE IF Contains(first_cell_text, Noshtna)
             THEN Put(Put(tariffs, "night_bgn", ExtractNumericValue(bgn_text)),
                      "night_eur", ExtractNumericValue(eur_text))
             ELSE tariffs
    ELSE tariffs

RECURSIVE ParseRows(_, _, _)
ParseRows(tariffs, rows, i) ==
    IF i > Len(rows) THEN tariffs
    ELSE ParseRows(ParseRow(tariffs, rows[i]), rows, i + 1)

\* _parse_main_tariffs
ParseMainTariffs(soup) == ParseRows([k \in {} |-> None], soup, 1)

\* x * 1.2 cut, not rounded, to 5 digits
VatPriceCut(x) == (x * 12) \div 10

\* round(x * 1.2, 5), x in units of 10^-5
VatPrice(x) == (x * 12 + 5) \div 10

\* the key each sensor type looks up in the parsed tariffs
TariffKey(sensor_type) ==
    CASE sensor_type = "day_tariff" -> "day_bgn"
      [] sensor_type = "night_tariff" -> "night_bgn"
      [] sensor_type = "day_tariff_euro" -> "day_eur"
      [] sensor_type = "night_tariff_euro" -> "night_eur"

\* main_tariffs.get(key, 0)
GetOr0(main_tariffs, key) ==
    IF key \in DOMAIN main_tariffs THEN main_tariffs[key] ELSE Some(0)

\* ElectricityTariffSensor.update: the new _state, from the old one, the outcome of
\* the fetch ("ok", or "error" for a network error, a timeout or a non-2xx status)
\* and the document fetched
UpdateState(sensor_type, state, net, doc) ==
    IF net # "ok" THEN state
    ELSE LET main_tariffs == ParseMainTariffs(doc)
             component == GetOr0(main_tariffs, TariffKey(sensor_type))
         IN  IF DOMAIN main_tariffs = {} THEN None
             ELSE IF component = None THEN state    \* None * 1.2 raises TypeError
             ELSE Some(VatPrice(component[1]))

\* the exception raised inside the try block of ElectricityTariffSensor.update:
\* requests.get or raise_for_status on a failed fetch, None * 1.2 on a component
\* with no number in it
UpdateRaised(sensor_type, net, doc) ==
    IF net # "ok" THEN "RequestException"
    ELSE LET main_tariffs == ParseMainTariffs(doc)
         IN  IF DOMAIN main_tariffs = {} THEN "none"
             ELSE IF GetOr0(main_tariffs, TariffKey(sensor_type)) = None THEN "TypeError"
             ELSE "none"

\* the classes derived from Exception that the two update methods can raise
ExceptionClasses == {"RequestException", "TypeError", "ValueError", "AttributeError"}

\* a handler for the fetch alone: except requests.RequestException
HandledFetchOnly(exc) == exc = "RequestException"

\* except Exception as e
Handled(exc) == exc \in ExceptionClasses

\* the exception leaves update
Escapes(exc) == exc # "none" /\ ~Handled(exc)

\* the entity id each base sensor is registered under (setup_platform's unique ids)
EntityId(sensor_type) ==
    CASE sensor_type = "day_tariff" -> "sensor.electrohold_tariff_day"
      [] sensor_type = "night_tariff" -> "sensor.electrohold_tariff_night"
      [] sensor_type = "day_tariff_euro" -> "sensor.electrohold_tariff_day_euro"
      [] sensor_type = "night_tariff_euro" -> "sensor.electrohold_tariff_night_euro"

EntityIds == {EntityId(t) : t \in SensorTypes}

\* ElectricityTariffSensor.available
Available(state) == state # None

\* what the host writes to the state registry for a base sensor: the state as a
\* string when the entity is available, 'unavailable' when it is not
Published(state) ==
    IF state # None THEN <<"num", state[1]>> ELSE <<"unavailable">>

(***************************************************************************)
(* ElectroholdCurrentPriceSensor                                           *)
(***************************************************************************)
Currencies == {"bgn", "euro"}

DEFAULT_TIMEZONE == "Europe/Sofia"

\* the zone names pytz knows: two zones that keep the same local time all year
KnownZones == {"Europe/Sofia", "Europe/Athens"}

\* the names a configuration can give: the known ones, one of no zone, the empty one
ZoneNames == KnownZones \cup {"Mars/Phobos", ""}

\* the zone taken as configured, whatever the name
TimezoneKept(timezone) == timezone

\* the timezone handling of __init__: pytz.timezone(timezone), and Europe/Sofia when
\* it raises UnknownTimeZoneError
ResolveTimezone(timezone) ==
    IF timezone \in KnownZones THEN timezone ELSE "Europe/Sofia"

\* is_summer = 4 <= month <= 10
IsSummer(month) == 4 <= month /\ month <= 10

\* is_night with the winter boundary one hour late
IsNightLate(is_summer, hour) ==
    IF is_summer THEN hour >= 23 \/ hour < 7
    ELSE hour > 22 \/ hour < 6

\* is_night as update computes it
IsNight(is_summer, hour) ==
    IF is_summer THEN hour >= 23 \/ hour < 7
    ELSE hour >= 22 \/ hour < 6

\* is_night as extra_state_attributes recomputes it
IsNightAttr(month, hour) ==
    LET is_summer == 4 <= month /\ month <= 10
    IN  IF is_summer THEN (hour >= 23 \/ hour < 7) ELSE (hour >= 22 \/ hour < 6)

SeasonName(is_summer) == IF is_summer THEN "Summer" ELSE "Winter"

\* the night sensor id taken from the EUR pair for either currency
NightSensorIdEuro(currency_type) == "sensor.electrohold_tariff_night_euro"

DaySensorId(currency_type) ==
    IF currency_type = "bgn" THEN "sensor.electrohold_tariff_day"
    ELSE "sensor.electrohold_tariff_day_euro"

NightSensorId(currency_type) ==
    IF currency_type = "bgn" THEN "sensor.electrohold_tariff_night"
    ELSE "sensor.electrohold_tariff_night_euro"

\* x and x.state not in ['unknown', 'unavailable', None] and x.state is not None
StateUsable(st) == st # None /\ st \notin {<<"unknown">>, <<"unavailable">>}

\* float(x.state): the value, or None where float raises ValueError
FloatOf(st) == IF st[1] = "num" THEN Some(st[2]) ELSE None

\* a read that never yields a value
ReadNothing(st) == None

\* the value update reads from one base sensor: None when it is not usable
ReadTariff(st) == IF StateUsable(st) THEN FloatOf(st) ELSE None

\* ElectroholdCurrentPriceSensor.update: the sensor's fields after a tick
CurrentUpdate(self, states, clock) ==
    LET is_summer == IsSummer(clock.month)
        is_night == IsNight(is_summer, clock.hour)
        day_state == states[DaySensorId(self.currency_type)]
        night_state == states[NightSensorId(self.currency_type)]
        current_tariff_value == IF is_night THEN ReadTariff(night_state)
                                ELSE ReadTariff(day_state)
        base_sensors_available == current_tariff_value # None
        tariff_type == IF current_tariff_value # None
                       THEN <<IF is_night THEN "Night" ELSE "Day", SeasonName(is_summer)>>
                       ELSE self.tariff_type
        assigned ==
            IF base_sensors_available /\ current_tariff_value # None
            THEN [state |-> current_tariff_value,
                  last_valid_state |-> current_tariff_value,
                  initialization_complete |-> TRUE]
            ELSE IF self.last_valid_state # None /\ self.initialization_complete
            THEN [state |-> self.last_valid_state,
                  last_valid_state |-> self.last_valid_state,
                  initialization_complete |-> self.initialization_complete]
            ELSE [state |-> None,
                  last_valid_state |-> self.last_valid_state,
                  initialization_complete |-> self.initialization_complete]
    IN  [currency_type |-> self.currency_type,
         timezone |-> self.timezone,
         state |-> assigned.state,
         tariff_type |-> tariff_type,
         season |-> Some(SeasonName(is_summer)),
         day_tariff |-> ReadTariff(day_state),
         night_tariff |-> ReadTariff(night_state),
         last_valid_state |-> assigned.last_valid_state,
         initialization_complete |-> assigned.initialization_complete]

\* _are_base_sensors_available
AreBaseSensorsAvailable(self, states) ==
    /\ StateUsable(states[DaySensorId(self.currency_type)])
    /\ StateUsable(states[NightSensorId(self.currency_type)])

\* where a lookup in the state registry can raise inside update: "lookup" before
\* the state is assigned (272-295), "attributes" after it (330-331)
FaultPoints == {"lookup", "attributes"}

\* an except block that takes the sensor back to uninitialised
ExceptBlockReset(self) == [self EXCEPT !.initialization_complete = FALSE]

\* an except block that drops the cached value
ExceptBlockClear(self) == [self EXCEPT !.last_valid_state = None]

\* an except block that serves a number of its own
ExceptBlockZero(self) == [self EXCEPT !.state = Some(0)]

\* the except block of update: serve the cached value if there is one
ExceptBlock(self) ==
    IF self.last_valid_state # None /\ self.initialization_complete
    THEN [self EXCEPT !.state = self.last_valid_state]
    ELSE self

\* ElectroholdCurrentPriceSensor.update when the registry lookup raises at point
CurrentUpdateFault(self, states, clock, point) ==
    IF point = "lookup" THEN ExceptBlock(self)
    ELSE LET u == CurrentUpdate(self, states, clock)
         IN  ExceptBlock([u EXCEPT !.day_tariff = self.day_tariff,
                                   !.night_tariff = self.night_tariff])

\* ElectroholdCurrentPriceSensor.available, as the truth value the host takes it for
CurrentAvailable(self, states) ==
    IF self.state # None THEN TRUE
    ELSE LET day_state == states[DaySensorId(self.currency_type)]
             night_state == states[NightSensorId(self.currency_type)]
             day_available == day_state # None
                              /\ day_state \notin {<<"unknown">>, <<"unavailable">>}
             night_available == night_state # None
                                /\ night_state \notin {<<"unknown">>, <<"unavailable">>}
         IN  day_available /\ night_available

\* data_source of extra_state_attributes
DataSource(self, states) ==
    IF self.state = self.last_valid_state /\ ~AreBaseSensorsAvailable(self, states)
    THEN "cached"
    ELSE IF self.state = None THEN "unavailable"
    ELSE "fresh"

\* the fields __init__ sets before its first update
NewCurrent(currency_type, timezone) ==
    [currency_type |-> currency_type,
     timezone |-> ResolveTimezone(timezone),
     state |-> None,
     tariff_type |-> None,
     season |-> None,
     day_tariff |-> None,
     night_tariff |-> None,
     last_valid_state |-> None,
     initialization_complete |-> FALSE]

(***************************************************************************)
(* The state machine.                                                      *)
(*   page   the document the price page serves at present                  *)
(*   base   _state of each ElectricityTariffSensor                         *)
(*   hass   the host's state registry: entity id -> published state, None  *)
(*          while the entity is not registered                             *)
(*   added  whether setup_platform has handed the entities to the host     *)
(*   now    the local time in the configured timezone: month and hour      *)
(*   cur    the fields of the ElectroholdCurrentPriceSensor                *)
(*   hist   history of the current price sensor's ticks: the band of the   *)
(*          last tick, the value it read from that band's base sensor, and *)
(*          the last value read per band                                   *)
(*   ev     the last step taken                                            *)
(***************************************************************************)
Months == 1..12

Hours == 0..23

AllClocks == [month : Months, hour : Hours]

\* summer day, summer night, winter day and winter night, at the evening boundaries
ClockPoints ==
    {[month |-> 6, hour |-> 22], [month |-> 6, hour |-> 23],
     [month |-> 11, hour |-> 21], [month |-> 11, hour |-> 22]}

NoStates == [id \in EntityIds |-> None]

\* the history after a tick of the current price sensor
HistAfter(h, self, states, clock) ==
    LET is_night == IsNight(IsSummer(clock.month), clock.hour)
        read == ReadTariff(states[IF is_night THEN NightSensorId(self.currency_type)
                                  ELSE DaySensorId(self.currency_type)])
    IN  [timezone_arg |-> h.timezone_arg,
         tick_night |-> is_night,
         tick_value |-> read,
         fresh_day |-> IF ~is_night /\ read # None THEN read ELSE h.fresh_day,
         fresh_night |-> IF is_night /\ read # None THEN read ELSE h.fresh_night]

NoHist == [timezone_arg |-> DEFAULT_TIMEZONE, tick_night |-> FALSE, tick_value |-> None, fresh_day |-> None, fresh_night |-> None]

\* setup_platform: the four base sensors are constructed (each constructor runs
\* update once), then the current price sensor (its constructor runs update against
\* a registry that holds none of the base sensors yet)
InitAll(docs, clocks, zones) ==
    /\ page \in docs
    /\ \E net \in [SensorTypes -> {"ok", "error"}] :
          base = [t \in SensorTypes |-> UpdateState(t, None, net[t], page)]
    /\ hass = NoStates
    /\ added = FALSE
    /\ now \in clocks
    /\ \E c \in Currencies, timezone \in zones :
          /\ cur = CurrentUpdate(NewCurrent(c, timezone), NoStates, now)
          /\ hist = HistAfter([NoHist EXCEPT !.timezone_arg = timezone], cur, NoStates, now)
    /\ ev = [kind |-> "init"]

\* ... with the timezone left at its default
InitWith(docs, clocks) == InitAll(docs, clocks, {DEFAULT_TIMEZONE})

\* add_entities: the host registers the entities and writes their first states
AddEntities ==
    /\ ~added
    /\ added' = TRUE
    /\ hass' = [id \in EntityIds |->
                  LET t == CHOOSE t \in SensorTypes : EntityId(t) = id
                  IN  Published(base[t])]
    /\ ev' = [kind |-> "add"]
    /\ UNCHANGED <<page, base, now, cur, hist>>

\* the price page changes to document doc
SitePublish(doc) ==
    /\ doc # page
    /\ page' = doc
    /\ ev' = [kind |-> "site"]
    /\ UNCHANGED <<base, hass, added, now, cur, hist>>

\* the price page gains a row
SiteAppendRow(row) ==
    /\ Len(page) < MaxRows
    /\ page' = Append(page, row)
    /\ ev' = [kind |-> "site"]
    /\ UNCHANGED <<base, hass, added, now, cur, hist>>

\* the price page loses its table
SiteClear ==
    /\ page # <<>>
    /\ page' = <<>>
    /\ ev' = [kind |-> "site"]
    /\ UNCHANGED <<base, hass, added, now, cur, hist>>

\* a poll of one base sensor (the host polls the entities it was handed): update,
\* then the host writes the new state
BaseUpdate(t, net) ==
    /\ added
    /\ base' = [base EXCEPT ![t] = UpdateState(t, base[t], net, page)]
    /\ hass' = [hass EXCEPT ![EntityId(t)] = Published(base'[t])]
    /\ UNCHANGED <<page, added, now, cur, hist>>

\* ... recorded with the sensor polled and the outcome of its fetch
BaseTick(t, net) ==
    /\ BaseUpdate(t, net)
    /\ ev' = [kind |-> "base", sensor |-> t, net |-> net]

\* ... recorded as a poll of some base sensor
BasePoll(t, net) ==
    /\ BaseUpdate(t, net)
    /\ ev' = [kind |-> "base"]

\* time passes
ClockAdvance(clock) ==
    /\ clock # now
    /\ now' = clock
    /\ ev' = [kind |-> "clock"]
    /\ UNCHANGED <<page, base, hass, added, cur, hist>>

\* a poll of the current price sensor
CurrentTick ==
    /\ added
    /\ cur' = CurrentUpdate(cur, hass, now)
    /\ hist' = HistAfter(hist, cur, hass, now)
    /\ ev' = [kind |-> "current"]
    /\ UNCHANGED <<page, base, hass, added, now>>

\* a poll of the current price sensor in which the registry lookup raises
CurrentFault(point) ==
    /\ added
    /\ cur' = CurrentUpdateFault(cur, hass, now, point)
    /\ hist' = HistAfter(hist, cur, IF point = "lookup" THEN NoStates ELSE hass, now)
    /\ ev' = [kind |-> "fault", point |-> point]
    /\ UNCHANGED <<page, base, hass, added, now>>

\* states that are not prices, as the registry can hold them for an entity
ForeignStates == {<<"unknown">>, <<"text">>}

\* the registry comes to hold a state that is not a price for one of the two base
\* sensors the current price sensor reads
ForeignWrite(id, st) ==
    /\ added
    /\ id \in {DaySensorId(cur.currency_type), NightSensorId(cur.currency_type)}
    /\ hass[id] # st
    /\ hass' = [hass EXCEPT ![id] = st]
    /\ ev' = [kind |-> "foreign"]
    /\ UNCHANGED <<page, base, added, now, cur, hist>>

Init == InitWith(SmallDocs, ClockPoints)

Next ==
    \/ AddEntities
    \/ \E doc \in SmallDocs : SitePublish(doc)
    \/ \E t \in SensorTypes, net \in {"ok", "error"} : BasePoll(t, net)
    \/ \E clock \in ClockPoints : ClockAdvance(clock)
    \/ CurrentTick

Spec == Init /\ [][Next]_vars

\* the base sensors alone, over every document of up to MaxRows rows
InitBase == InitWith(Docs, {[month |-> 6, hour |-> 22]})

NextBase ==
    \/ AddEntities
    \/ \E row \in Rows : SiteAppendRow(row)
    \/ SiteClear
    \/ \E t \in SensorTypes, net \in {"ok", "error"} : BaseTick(t, net)

SpecBase == InitBase /\ [][NextBase]_vars

\* the classification, over every month and hour
InitClock == InitWith({FullDoc}, AllClocks)

NextClock ==
    \/ AddEntities
    \/ CurrentTick

SpecClock == InitClock /\ [][NextClock]_vars

\* both sensor kinds with every failure: failed fetches, a page whose day row has
\* no number in its final cells, states in the registry that are not prices, and
\* registry lookups that raise
BlankDoc == <<DayRowBlank, NightRow>>

FaultClocks == {[month |-> 6, hour |-> 22], [month |-> 6, hour |-> 23]}

InitFault == InitWith({FullDoc, BlankDoc}, FaultClocks)

NextFault ==
    \/ AddEntities
    \/ \E t \in SensorTypes, net \in {"ok", "error"} : BaseTick(t, net)
    \/ \E id \in EntityIds, st \in ForeignStates : ForeignWrite(id, st)
    \/ \E clock \in FaultClocks : ClockAdvance(clock)
    \/ CurrentTick
    \/ \E point \in FaultPoints : CurrentFault(point)

SpecFault == InitFault /\ [][NextFault]_vars

\* the current price sensor configured with every zone name
InitZone == InitAll({FullDoc}, ClockPoints, ZoneNames)

NextZone ==
    \/ AddEntities
    \/ \E clock \in ClockPoints : ClockAdvance(clock)
    \/ CurrentTick

SpecZone == InitZone /\ [][NextZone]_vars

\* ... with the host's scheduling: setup_platform hands the entities over, and the
\* host polls the current price sensor again and again, so a tick that completes
\* keeps coming
SpecLive == InitFault /\ [][NextFault]_vars /\ WF_vars(AddEntities) /\ WF_vars(CurrentTick)

(***************************************************************************)
(* Properties of the current price sensor (specification Spec).            *)
(***************************************************************************)
\* the last value a tick read from the base sensor of the band of the last tick
LastFreshOfBand == IF hist.tick_night THEN hist.fresh_night ELSE hist.fresh_day

\* the state is that of a tick that found its band's base value unavailable
AfterUnavailableTick == ev.kind = "current" /\ hist.tick_value = None

\* C1: after a tick that found the active band's base value unavailable, when an
\* earlier tick read X for that band and X is the last value read for it, the state
\* is X and data_source is 'cached'.
C1_CacheFallback ==
    (AfterUnavailableTick /\ LastFreshOfBand # None)
        => (cur.state = LastFreshOfBand /\ DataSource(cur, hass) = "cached")

\* C2: while no tick has read a base value, the state is absent and data_source is
\* 'unavailable'.
C2_FirstRunUnavailable ==
    (hist.fresh_day = None /\ hist.fresh_night = None)
        => (cur.state = None /\ DataSource(cur, hass) = "unavailable")

\* C3: after a tick that found the active band's base value unavailable, the state is
\* the last value read for that band itself, absent when that band was never read.
C3_PerBandFallback ==
    AfterUnavailableTick => cur.state = LastFreshOfBand

\* C4: data_source 'fresh' means the state is the value the last tick read from the
\* active band's base sensor.
C4_FreshIsThisTick ==
    DataSource(cur, hass) = "fresh"
        => (cur.state # None /\ hist.tick_value # None /\ cur.state = hist.tick_value)

\* C5: data_source 'cached' means the last tick found the active band's base value
\* unavailable and serves an earlier value.
C5_CachedIsFallback ==
    DataSource(cur, hass) = "cached"
        => (hist.tick_value = None /\ cur.state # None)

\* C17: after a tick that serves a state, read or cached, tariff_type names the band
\* and the season of that tick, and its season is the season attribute.
C17_LabelMatchesTick ==
    (ev.kind = "current" /\ cur.state # None) =>
        /\ cur.tariff_type = <<IF IsNight(IsSummer(now.month), now.hour) THEN "Night" ELSE "Day",
                               SeasonName(IsSummer(now.month))>>
        /\ Some(cur.tariff_type[2]) = cur.season

\* C20: while the current price sensor serves a value, a poll of a base sensor, which
\* is no tick of the current price sensor, leaves the data_source that
\* extra_state_attributes reports as it was.
C20_SourceStable ==
    [][(ev'.kind = "base" /\ cur.state # None)
          => DataSource(cur', hass') = DataSource(cur, hass)]_vars

\* the states the registry can hold for a base sensor
RegistryStates ==
    {None, <<"unavailable">>, <<"unknown">>, <<"text">>, <<"num", 14974>>, <<"num", 29284>>}

\* the entity ids of the base sensors of a currency
CurrencyIds(currency_type) ==
    IF currency_type = "bgn"
    THEN {"sensor.electrohold_tariff_day", "sensor.electrohold_tariff_night"}
    ELSE {"sensor.electrohold_tariff_day_euro", "sensor.electrohold_tariff_night_euro"}

\* the registries that agree with the present one on the two base sensors of the
\* current price sensor's own currency and hold any states for the other two
OtherCurrencyVariants ==
    LET own == CurrencyIds(cur.currency_type)
    IN  {[id \in EntityIds |-> IF id \in own THEN hass[id] ELSE other[id]] :
            other \in [EntityIds \ own -> RegistryStates]}

\* C21: two runs that agree on the clock, on the current price sensor's fields and on
\* the registry states of its own currency's base sensors, and differ in any way in
\* the other currency's, agree after a tick (completed or raising) on all its fields,
\* state and cached value among them, and on data_source before and after the tick;
\* as the runs start with equal fields, they agree after every tick.
C21_CurrencyIsolation ==
    LET here == CurrentUpdate(cur, hass, now)
        source == DataSource(cur, hass)
        source_here == DataSource(here, hass)
        available == CurrentAvailable(cur, hass)
        raised == [point \in FaultPoints |-> CurrentUpdateFault(cur, hass, now, point)]
    IN  \A alt \in OtherCurrencyVariants :
            /\ DataSource(cur, alt) = source
            /\ CurrentAvailable(cur, alt) = available
            /\ CurrentUpdate(cur, alt, now) = here
            /\ DataSource(here, alt) = source_here
            /\ \A point \in FaultPoints :
                  CurrentUpdateFault(cur, alt, now, point) = raised[point]

\* the BGN current price sensor has read a price in a tick while an EUR base sensor
\* is unavailable
C21_Witness ==
    /\ ev.kind = "current"
    /\ cur.currency_type = "bgn"
    /\ cur.state # None
    /\ hist.tick_value = cur.state
    /\ hass["sensor.electrohold_tariff_night_euro"] = <<"unavailable">>
    /\ hass["sensor.electrohold_tariff_day_euro"] # <<"unavailable">>

\* C11: in every state each sensor is available exactly when its state is present:
\* an absent state means available is false, whatever the base sensors publish.
C11_AvailableIffState ==
    /\ \A t \in SensorTypes : Available(base[t]) <=> base[t] # None
    /\ CurrentAvailable(cur, hass) <=> cur.state # None

(***************************************************************************)
(* Season and band (specification SpecClock).                              *)
(***************************************************************************)
\* C6: at every month and hour the season of a tick is summer iff 4 <= month <= 10,
\* its band is night iff (summer and (hour >= 23 or hour < 7)) or (winter and
\* (hour >= 22 or hour < 6)), the label of a value read names that band and season,
\* and extra_state_attributes classifies the same instant the same way.
C6_Classification ==
    LET m == now.month
        h == now.hour
        summer == m \in 4..10
        night == \/ summer /\ (h >= 23 \/ h < 7)
                 \/ ~summer /\ (h >= 22 \/ h < 6)
    IN  /\ cur.season = Some(IF summer THEN "Summer" ELSE "Winter")
        /\ hist.tick_night = night
        /\ IsNightAttr(m, h) = hist.tick_night
        /\ hist.tick_value # None
             => cur.tariff_type = <<IF night THEN "Night" ELSE "Day",
                                    IF summer THEN "Summer" ELSE "Winter">>
        /\ (m = 11 /\ h = 22) => hist.tick_night
        /\ (m = 11 /\ h = 21) => ~hist.tick_night
        /\ (m = 6 /\ h = 23) => hist.tick_night
        /\ (m = 6 /\ h = 22) => ~hist.tick_night

\* a tick at 22h in November read the night price and labelled it Night (Winter)
C6_Witness ==
    /\ ev.kind = "current"
    /\ now = [month |-> 11, hour |-> 22]
    /\ hist.tick_value # None
    /\ cur.tariff_type = <<"Night", "Winter">>

(***************************************************************************)
(* Properties of the base tariff sensors (specification SpecBase).         *)
(***************************************************************************)
\* the tick's lower layers failed: the fetch, or the parse found no tariff row
TickFailed(net, doc) == net # "ok" \/ DOMAIN ParseMainTariffs(doc) = {}

\* C7: a tick that fails (fetch error, or no tariff row found) of a sensor that holds
\* a valid price, a positive number, leaves the price as it was.
C7_KeepsLastGood ==
    [][\A t \in SensorTypes :
          (/\ ev'.kind = "base"
           /\ ev'.sensor = t
           /\ TickFailed(ev'.net, page)
           /\ base[t] # None
           /\ base[t][1] > 0) => base'[t] = base[t]]_vars

\* the state is that of a tick of sensor t whose fetch succeeded
AfterFetch(t) == ev.kind = "base" /\ ev.sensor = t /\ ev.net = "ok"

\* C8: a tick on a document that holds some tariff row but not the row of the
\* sensor's own band does not make the price zero.
C8_AbsentNotZero ==
    \A t \in SensorTypes :
        (/\ AfterFetch(t)
         /\ DOMAIN ParseMainTariffs(page) # {}
         /\ TariffKey(t) \notin DOMAIN ParseMainTariffs(page)) => base[t] # Some(0)

\* the plausibility window of each band, in EUR/kWh
InWindow(t, v) ==
    IF t = "night_tariff_euro" THEN 5000 < v /\ v < 10000 ELSE v > 10000

\* C9: the component a tick of a EUR sensor accepts from its band's row, and prices,
\* lies in the band's window: above 0.05 and below 0.1 for night, above 0.1 for day.
C9_RangeEnforced ==
    \A t \in {"day_tariff_euro", "night_tariff_euro"} :
        LET main_tariffs == ParseMainTariffs(page)
            key == TariffKey(t)
        IN  (/\ AfterFetch(t)
             /\ key \in DOMAIN main_tariffs
             /\ main_tariffs[key] # None
             /\ base[t] = Some(VatPrice(main_tariffs[key][1])))
                => InWindow(t, main_tariffs[key][1])

\* C10: after a tick that extracted component c, the price p is c * 1.2 rounded to
\* the nearest 10^-5: 10 p is within 5 of 12 c; 0.12478 gives 0.14974 and 0.07381
\* gives 0.08857.
C10_VatDerivation ==
    \A t \in SensorTypes :
        AfterFetch(t) =>
        LET main_tariffs == ParseMainTariffs(page)
            key == TariffKey(t)
        IN  (/\ key \in DOMAIN main_tariffs
             /\ main_tariffs[key] # None)
                => LET c == main_tariffs[key][1]
                   IN  /\ base[t] # None
                       /\ 10 * base[t][1] - 12 * c \in -5..5
                       /\ c = 12478 => base[t] = Some(14974)
                       /\ c = 7381 => base[t] = Some(8857)

\* the EUR day sensor read 0.12478 off the page and holds 0.14974
C10_Witness ==
    /\ AfterFetch("day_tariff_euro")
    /\ "day_eur" \in DOMAIN ParseMainTariffs(page)
    /\ ParseMainTariffs(page)["day_eur"] = Some(12478)
    /\ base["day_tariff_euro"] = Some(14974)

\* the number a cell gives with the EUR marker after it, None when it gives none
MarkedNumber(cell) ==
    IF Len(cell) >= 2 /\ IsNum(cell[1]) /\ cell[2] = W("eur")
    THEN ExtractNumericValue(<<cell[1]>>)
    ELSE None

\* the first EUR-marked number of a row that lies in the window of sensor type t
FirstMarkedInWindow(row, t) ==
    LET hits == {j \in 1..Len(row) :
                    /\ MarkedNumber(row[j]) # None
                    /\ InWindow(t, MarkedNumber(row[j])[1])}
    IN  IF hits = {} THEN None
        ELSE MarkedNumber(row[CHOOSE j \in hits : \A k \in hits : j <= k])

\* C18: every row of the page that holds the day (night) keyword in some cell and an
\* EUR-marked number inside the day (night) window in some cell gives the day (night)
\* EUR component, equal to the first such number, however many cells the row has.
C18_TolerantRows ==
    \A i \in 1..Len(page) :
        LET row == page[i]
            main_tariffs == ParseMainTariffs(<<row>>)
        IN  /\ ((\E j \in 1..Len(row) : Contains(row[j], Dnevna))
                 /\ FirstMarkedInWindow(row, "day_tariff_euro") # None)
                  => /\ "day_eur" \in DOMAIN main_tariffs
                     /\ main_tariffs["day_eur"] = FirstMarkedInWindow(row, "day_tariff_euro")
            /\ ((\E j \in 1..Len(row) : Contains(row[j], Noshtna))
                 /\ FirstMarkedInWindow(row, "night_tariff_euro") # None)
                  => /\ "night_eur" \in DOMAIN main_tariffs
                     /\ main_tariffs["night_eur"] = FirstMarkedInWindow(row, "night_tariff_euro")

\* C14: the price a sensor holds after a tick that fetched a document is the price
\* a sensor with no previous state derives from that document: it does not depend on
\* the state before the tick.
C14_Repeatable ==
    \A t \in SensorTypes :
        AfterFetch(t) => base[t] = UpdateState(t, None, "ok", page)

(***************************************************************************)
(* The timezone (specification SpecZone).                                  *)
(***************************************************************************)
\* C13: whatever zone name the sensor was constructed with, it holds a zone pytz
\* knows; a name pytz does not know gives Europe/Sofia, a known name is kept; and
\* every tick classifies the local time, setting season and band.
C13_TimezoneFallback ==
    /\ cur.timezone \in KnownZones
    /\ hist.timezone_arg \notin KnownZones => cur.timezone = "Europe/Sofia"
    /\ hist.timezone_arg \in KnownZones => cur.timezone = hist.timezone_arg
    /\ ev.kind \in {"init", "current"} =>
          /\ cur.season = Some(SeasonName(IsSummer(now.month)))
          /\ hist.tick_night = IsNight(IsSummer(now.month), now.hour)

\* a sensor configured with a zone name pytz does not know has read the night price
\* at 22h in November
C13_Witness ==
    /\ hist.timezone_arg = "Mars/Phobos"
    /\ cur.timezone = "Europe/Sofia"
    /\ ev.kind = "current"
    /\ now = [month |-> 11, hour |-> 22]
    /\ cur.tariff_type = <<"Night", "Winter">>
    /\ cur.state # None

IsTick(e) == e.kind \in {"current", "fault"}

\* C15: _initialization_complete is true after every tick that read a valid value,
\* turns true only in such a tick, and once true stays true across completed ticks,
\* ticks that find the base sensor unavailable and ticks that raise internally.
C15_FlagMonotone ==
    [][/\ cur.initialization_complete => cur'.initialization_complete
       /\ (IsTick(ev') /\ hist'.tick_value # None) => cur'.initialization_complete
       /\ (~cur.initialization_complete /\ cur'.initialization_complete)
             => (IsTick(ev') /\ hist'.tick_value # None)]_vars

\* the flag is still true after a tick whose registry lookup raised
C15_Witness ==
    /\ ev.kind = "fault"
    /\ ev.point = "lookup"
    /\ cur.initialization_complete

\* C16: a tick that read no valid value for the active band (state missing,
\* unavailable, unknown or not a number, or the lookup raising) leaves
\* _last_valid_state and _initialization_complete as they were; _last_valid_state
\* changes only in a tick that read a valid value, to that value.
C16_CacheFrame ==
    [][/\ (IsTick(ev') /\ hist'.tick_value = None)
             => /\ cur'.last_valid_state = cur.last_valid_state
                /\ cur'.initialization_complete = cur.initialization_complete
       /\ cur'.last_valid_state # cur.last_valid_state
             => /\ IsTick(ev')
                /\ hist'.tick_value # None
                /\ cur'.last_valid_state = hist'.tick_value]_vars

\* a tick found a state that is not a number for the active band and the cached
\* value is still held
C16_Witness ==
    /\ ev.kind = "current"
    /\ hist.tick_value = None
    /\ hass[IF hist.tick_night THEN NightSensorId(cur.currency_type)
            ELSE DaySensorId(cur.currency_type)] = <<"text">>
    /\ cur.last_valid_state # None
    /\ cur.initialization_complete

\* C22: in every state _initialization_complete is true exactly when
\* _last_valid_state is present; a state that is present equals _last_valid_state;
\* and _last_valid_state is a value a tick read: the one the last tick read when it
\* read one, else the last value read for one of the bands.
C22_CacheConsistent ==
    /\ cur.initialization_complete <=> cur.last_valid_state # None
    /\ cur.state # None => cur.state = cur.last_valid_state
    /\ hist.tick_value # None => cur.last_valid_state = hist.tick_value
    /\ cur.last_valid_state # None
          => cur.last_valid_state \in {hist.fresh_day, hist.fresh_night}

\* a tick whose lookup raised after the state was assigned serves the cached value
C22_Witness ==
    /\ ev.kind = "fault"
    /\ ev.point = "attributes"
    /\ hist.tick_value = None
    /\ cur.initialization_complete
    /\ cur.state # None
    /\ cur.state = cur.last_valid_state

(***************************************************************************)
(* Recovery (specification SpecLive).                                      *)
(***************************************************************************)
\* the registry state of the base sensor of the band active now
ActiveState ==
    hass[IF IsNight(IsSummer(now.month), now.hour) THEN NightSensorId(cur.currency_type)
         ELSE DaySensorId(cur.currency_type)]

\* C19: with ticks scheduled fairly, if from some point on the base sensor of the
\* active band publishes a number, the current price sensor comes to serve that
\* number as its state, whatever states came before.
C19_Recovery ==
    [](ActiveState # None /\ ActiveState[1] = "num")
        ~> (ActiveState # None /\ ActiveState[1] = "num" /\ cur.state = Some(ActiveState[2]))

\* a tick at night serves the night price it read, after an earlier tick had left
\* the day price in the cache
C19_Witness ==
    /\ ev.kind = "current"
    /\ hist.tick_night
    /\ hist.fresh_day # None
    /\ hist.tick_value # None
    /\ cur.state = hist.tick_value
    /\ cur.state # hist.fresh_day

====
